---------------------------- MODULE Spec2Model ----------------------------
(***************************************************************************)
(* Verification model of the bluestaq_code_challenge repository.           *)
(*                                                                         *)
(* Part I  (specification Spec): the poetry client, app/script.js and      *)
(*          app/errorHandler.js: the click handler fetchPoetry with its    *)
(*          two await points, validateInput, createPoetryUrl, showError    *)
(*          and handleHttpErrors.                                          *)
(* Part II (specification ElevatorSpec): the single-elevator scheduler.    *)
(*          elevator.py is not among the source files, so this part is     *)
(*          written from sections 3, 4 and 7 of the specification.         *)
(*                                                                         *)
(* Strings are sequences of one-character strings, so that trimming,       *)
(* pattern tests and concatenation are computed, not assumed.  Part I      *)
(* follows one invocation of fetchPoetry at a time, from the click to its  *)
(* return; its counters (parsed, rendered, logged, errWrites) are those of *)
(* the invocation and are reset by the next click.                         *)
(***************************************************************************)
EXTENDS Integers, Sequences, FiniteSets, TLC

VARIABLES
    \* ---- Part I: the page and one invocation of fetchPoetry
    authorInput,   \* value of the #authorInput field
    titleInput,    \* value of the #titleInput field
    outputDiv,     \* content of #output
    errorDiv,      \* content of #errorMessage
    pc,            \* position of fetchPoetry: idle, awaitFetch, awaitJson
    author,        \* local: trimmed author
    title,         \* local: trimmed title
    url,           \* local: the argument given to fetch
    response,      \* the response the pending fetch resolved with
    parsed,        \* response.json() was called in this invocation
    rendered,      \* outputDiv.innerHTML was assigned in this invocation
    logged,        \* number of logError calls in this invocation
    errWrites,     \* number of showError calls in this invocation
    \* ---- Part II: the elevator simulator
    ePc,           \* build, run, rejected
    requests,      \* the input batch: a sequence of (floor, direction)
    buildError,    \* error reported by the queue builder
    startFloor,    \* the configured starting floor
    currentFloor,
    currentDirection,
    upQueue,       \* pending floors, ascending
    downQueue,     \* pending floors, descending
    target,        \* <<f>>: the floor the frame generator moves to; <<>>: none
    serviced       \* the serviced-floor sequence

poetryVars == <<authorInput, titleInput, outputDiv, errorDiv, pc, author,
                title, url, response, parsed, rendered, logged, errWrites>>
elevatorVars == <<ePc, requests, buildError, startFloor, currentFloor, currentDirection,
                  upQueue, downQueue, target, serviced>>
vars == <<poetryVars, elevatorVars>>

(***************************************************************************)
(* Bounds.                                                                 *)
(***************************************************************************)
MaxLen == 2        \* longest text typed into an input field
MaxPoems == 1      \* longest poem array a response carries
MaxFloor == 3      \* top floor of the configured building range
MinFloor == 0      \* bottom floor of the configured building range
MaxRequests == 3   \* longest request batch

(***************************************************************************)
(* Part I.  Text.                                                          *)
(***************************************************************************)
Letters == {"a"}
Digits == {"1"}
Whitespace == {" "}
Others == {"!"}
Alphabet == Letters \cup Digits \cup Whitespace \cup Others

NULL == "null"
Undefined == <<"undefined">>
EmptyString == <<>>

\* String.prototype.trim: drops leading and trailing whitespace.
RECURSIVE TrimStart(_)
TrimStart(s) ==
    IF s # <<>> /\ Head(s) \in Whitespace THEN TrimStart(Tail(s)) ELSE s

RECURSIVE TrimEnd(_)
TrimEnd(s) ==
    IF s # <<>> /\ s[Len(s)] \in Whitespace
    THEN TrimEnd(SubSeq(s, 1, Len(s) - 1))
    ELSE s

Trim(s) == TrimEnd(TrimStart(s))

\* RegExp.prototype.test for a negated character class.
invalidAuthorPattern(s) ==
    \E i \in DOMAIN s : s[i] \notin (Letters \cup Whitespace)

invalidTitlePattern(s) ==
    \E i \in DOMAIN s : s[i] \notin (Letters \cup Digits \cup Whitespace)

\* String.prototype.includes, on a message held as a sequence of parts.
Includes(msg, part) == \E i \in DOMAIN msg : msg[i] = part

BASE_URL == "https://poetrydb.org"

MsgEnterEither == "Please enter either an author name, title, or both."
MsgBadAuthor == "Please enter a valid author name with letters and spaces only."
MsgBadTitle == "Please enter a valid title with letters, numbers, and spaces only."
MsgNoPoems == "No poems found. Try searching with different criteria."
MsgFetching == "Fetching poetry data..."
MsgConnection == "We're having trouble connecting to the server. Please check your internet connection and try again."
MsgServerOpen == "There was an issue with the server ("
MsgServerClose == "). Please try again later."
MsgBadFormat == "We received an unexpected response from the server. Please try again later."
MsgGeneric == "An unexpected error occurred. Please try again later."

ErrFailedToFetch == <<"Failed to fetch">>
ErrNetworkOther == <<"NetworkError when attempting to fetch resource.">>
ErrUnexpectedFormat == <<"Unexpected response format", ". Please try again later.">>
ErrJsonSyntax == <<"Unexpected token < in JSON at position 0">>
ErrNullStatus == <<"Cannot read properties of null (reading 'status')">>

(***************************************************************************)
(* validateInput(author, title): the message, or NULL.                     *)
(***************************************************************************)
\* validateInput with the title test (lines 119-122) left out.
validateInputNoTitleCheck(a, t) ==
    IF a = EmptyString /\ t = EmptyString THEN MsgEnterEither
    ELSE IF a # EmptyString /\ invalidAuthorPattern(a) THEN MsgBadAuthor
    ELSE NULL

\* validateInput with the both-empty test (lines 109-112) left out.
validateInputNoEmptyCheck(a, t) ==
    IF a # EmptyString /\ invalidAuthorPattern(a) THEN MsgBadAuthor
    ELSE IF t # EmptyString /\ invalidTitlePattern(t) THEN MsgBadTitle
    ELSE NULL

\* validateInput as written.
validateInput(a, t) ==
    IF a = EmptyString /\ t = EmptyString THEN MsgEnterEither
    ELSE IF a # EmptyString /\ invalidAuthorPattern(a) THEN MsgBadAuthor
    ELSE IF t # EmptyString /\ invalidTitlePattern(t) THEN MsgBadTitle
    ELSE NULL

(***************************************************************************)
(* createPoetryUrl(author, title); Undefined when no branch is taken.      *)
(***************************************************************************)
createPoetryUrl(a, t) ==
    IF a # EmptyString /\ t # EmptyString
    THEN <<BASE_URL, "/author,title/">> \o a \o <<";">> \o t
    ELSE IF a # EmptyString THEN <<BASE_URL, "/author/">> \o a
    ELSE IF t # EmptyString THEN <<BASE_URL, "/title/">> \o t
    ELSE Undefined

(***************************************************************************)
(* handleHttpErrors(status): what the call does, thrown or returned.       *)
(***************************************************************************)
Throw(msg) == [thrown |-> TRUE, message |-> msg]
Return == [thrown |-> FALSE, message |-> <<>>]

ListedStatuses == {400, 401, 403, 404, 429, 500, 502, 503, 504}
UnlistedStatuses == {418}
ErrorStatuses == ListedStatuses \cup UnlistedStatuses

\* handleHttpErrors with case 404 returning instead of throwing.
handleHttpErrorsBreakOn404(status) ==
    CASE status = 400 -> Throw(<<"Bad Request: Please check the information you provided.">>)
      [] status = 401 -> Throw(<<"Unauthorized: Please log in and try again.">>)
      [] status = 403 -> Throw(<<"Forbidden: You do not have permission to access this resource.">>)
      [] status = 404 -> Return
      [] status = 429 -> Throw(<<"Too Many Requests: Please wait a moment before trying again.">>)
      [] status = 500 -> Throw(<<"Internal Server Error: Something went wrong on our end. Please try again later.">>)
      [] status = 502 -> Throw(<<"Bad Gateway: The server received an invalid response. Please try again later.">>)
      [] status = 503 -> Throw(<<"Service Unavailable: The server is currently unavailable. Please try again later.">>)
      [] status = 504 -> Throw(<<"Gateway Timeout: The server took too long to respond. Please try again later.">>)
      [] OTHER -> Throw(<<"Unexpected error:", ToString(status)>>)

\* handleHttpErrors as written: every case throws.
handleHttpErrors(status) ==
    CASE status = 400 -> Throw(<<"Bad Request: Please check the information you provided.">>)
      [] status = 401 -> Throw(<<"Unauthorized: Please log in and try again.">>)
      [] status = 403 -> Throw(<<"Forbidden: You do not have permission to access this resource.">>)
      [] status = 404 -> Throw(<<"Not Found: No matching results were found. Please try a different search.">>)
      [] status = 429 -> Throw(<<"Too Many Requests: Please wait a moment before trying again.">>)
      [] status = 500 -> Throw(<<"Internal Server Error: Something went wrong on our end. Please try again later.">>)
      [] status = 502 -> Throw(<<"Bad Gateway: The server received an invalid response. Please try again later.">>)
      [] status = 503 -> Throw(<<"Service Unavailable: The server is currently unavailable. Please try again later.">>)
      [] status = 504 -> Throw(<<"Gateway Timeout: The server took too long to respond. Please try again later.">>)
      [] OTHER -> Throw(<<"Unexpected error:", ToString(status)>>)

(***************************************************************************)
(* The catch block of fetchPoetry: the text showError is given.            *)
(***************************************************************************)
CatchMessage(msg) ==
    IF msg = ErrFailedToFetch THEN <<MsgConnection>>
    ELSE IF Includes(msg, "Unexpected error:")
         THEN <<MsgServerOpen>> \o msg \o <<MsgServerClose>>
    ELSE IF Includes(msg, "Unexpected response format") THEN <<MsgBadFormat>>
    ELSE <<MsgGeneric>>

\* catch (error) { console.error; logError(error); showError(...) }
Catch(msg) ==
    /\ logged' = logged + 1
    /\ errorDiv' = CatchMessage(msg)
    /\ errWrites' = errWrites + 1

\* The locals of an invocation are gone once it returns.
ReturnFromHandler ==
    /\ pc' = "idle"
    /\ author' = EmptyString
    /\ title' = EmptyString
    /\ url' = EmptyString

(***************************************************************************)
(* Response bodies.                                                        *)
(***************************************************************************)
NoResponse == [received |-> FALSE, ok |-> FALSE, status |-> 0]

Poems == [title : {"", "Ozymandias"}, lines : {"", "I met a traveller"},
          author : {"", "Shelley"}]

RECURSIVE SeqsUpTo(_, _)
SeqsUpTo(S, n) ==
    IF n = 0 THEN {<<>>}
    ELSE LET shorter == SeqsUpTo(S, n - 1)
         IN shorter \cup {Append(s, x) : s \in shorter, x \in S}

Bodies ==
    {[kind |-> "object", status |-> 404, poems |-> <<>>],
     [kind |-> "object", status |-> 0, poems |-> <<>>],
     [kind |-> "null", status |-> 0, poems |-> <<>>]}
    \cup {[kind |-> "array", status |-> 0, poems |-> p] :
              p \in SeqsUpTo(Poems, MaxPoems)}

RenderPoem(poem) ==
    <<"<h3>", IF poem.title # "" THEN poem.title ELSE "Unknown Title", "</h3>",
      "<pre>", IF poem.lines # "" THEN poem.lines ELSE "No content available", "</pre>",
      "<p><strong>Author:</strong> ",
      IF poem.author # "" THEN poem.author ELSE "Unknown Author", "</p>">>

RECURSIVE RenderAll(_)
RenderAll(poems) ==
    IF poems = <<>> THEN <<>>
    ELSE RenderPoem(Head(poems)) \o RenderAll(Tail(poems))

(***************************************************************************)
(* Part I.  Actions.                                                       *)
(***************************************************************************)
PoetryInit ==
    /\ authorInput = EmptyString
    /\ titleInput = EmptyString
    /\ outputDiv = EmptyString
    /\ errorDiv = EmptyString
    /\ pc = "idle"
    /\ author = EmptyString
    /\ title = EmptyString
    /\ url = EmptyString
    /\ response = NoResponse
    /\ parsed = FALSE
    /\ rendered = FALSE
    /\ logged = 0
    /\ errWrites = 0

ElevatorIdle ==
    /\ ePc = "off"
    /\ requests = <<>>
    /\ buildError = "none"
    /\ startFloor = MinFloor
    /\ currentFloor = MinFloor
    /\ currentDirection = "IDLE"
    /\ upQueue = <<>>
    /\ downQueue = <<>>
    /\ target = <<>>
    /\ serviced = <<>>

\* The user edits a field, one key at a time, between searches.
Edit(s) ==
    {Append(s, c) : c \in IF Len(s) < MaxLen THEN Alphabet ELSE {}}
    \cup (IF s # <<>> THEN {SubSeq(s, 1, Len(s) - 1)} ELSE {})

TypeAuthor ==
    /\ pc = "idle"
    /\ \E s \in Edit(authorInput) : authorInput' = s
    /\ UNCHANGED <<titleInput, outputDiv, errorDiv, pc, author, title, url,
                   response, parsed, rendered, logged, errWrites>>
    /\ UNCHANGED elevatorVars

TypeTitle ==
    /\ pc = "idle"
    /\ \E s \in Edit(titleInput) : titleInput' = s
    /\ UNCHANGED <<authorInput, outputDiv, errorDiv, pc, author, title, url,
                   response, parsed, rendered, logged, errWrites>>
    /\ UNCHANGED elevatorVars

\* fetchPoetry from the click up to its first await, or to its early return.
Click ==
    /\ pc = "idle"
    /\ LET a == Trim(authorInput)
           t == Trim(titleInput)
           validationError == validateInput(a, t)
       IN /\ response' = NoResponse
          /\ parsed' = FALSE
          /\ rendered' = FALSE
          /\ logged' = 0
          /\ IF validationError # NULL
             THEN /\ outputDiv' = EmptyString
                  /\ errorDiv' = <<validationError>>
                  /\ errWrites' = 1
                  /\ ReturnFromHandler
             ELSE /\ outputDiv' = <<MsgFetching>>
                  /\ errorDiv' = EmptyString
                  /\ errWrites' = 0
                  /\ author' = a
                  /\ title' = t
                  /\ url' = createPoetryUrl(a, t)
                  /\ pc' = "awaitFetch"
    /\ UNCHANGED <<authorInput, titleInput>>
    /\ UNCHANGED elevatorVars

\* await fetch(url) rejects: control enters the catch block.
FetchRejects ==
    /\ pc = "awaitFetch"
    /\ \E msg \in {ErrFailedToFetch, ErrNetworkOther} : Catch(msg)
    /\ ReturnFromHandler
    /\ UNCHANGED <<authorInput, titleInput, outputDiv, response, parsed, rendered>>
    /\ UNCHANGED elevatorVars

\* await fetch(url) resolves; if (!response.ok) handleHttpErrors(status);
\* then response.json() is called and awaited.
FetchResolves ==
    /\ pc = "awaitFetch"
    /\ \E r \in {[received |-> TRUE, ok |-> TRUE, status |-> 200]}
               \cup {[received |-> TRUE, ok |-> FALSE, status |-> s] :
                        s \in ErrorStatuses} :
          /\ response' = r
          /\ LET h == IF r.ok THEN Return ELSE handleHttpErrors(r.status)
             IN IF h.thrown
                THEN /\ Catch(h.message)
                     /\ ReturnFromHandler
                     /\ UNCHANGED parsed
                ELSE /\ parsed' = TRUE
                     /\ pc' = "awaitJson"
                     /\ UNCHANGED <<author, title, url, logged, errorDiv, errWrites>>
    /\ UNCHANGED <<authorInput, titleInput, outputDiv, rendered>>
    /\ UNCHANGED elevatorVars

\* await response.json() rejects: the body is not JSON.
JsonRejects ==
    /\ pc = "awaitJson"
    /\ Catch(ErrJsonSyntax)
    /\ ReturnFromHandler
    /\ UNCHANGED <<authorInput, titleInput, outputDiv, response, parsed, rendered>>
    /\ UNCHANGED elevatorVars

\* await response.json() resolves with data; the rest of the try block.
JsonResolves ==
    /\ pc = "awaitJson"
    /\ \E data \in Bodies :
          IF data.kind = "null"
          THEN /\ Catch(ErrNullStatus)
               /\ UNCHANGED <<outputDiv, rendered>>
          ELSE IF data.status = 404
          THEN /\ errorDiv' = <<MsgNoPoems>>
               /\ errWrites' = errWrites + 1
               /\ UNCHANGED <<outputDiv, rendered, logged>>
          ELSE IF data.kind # "array"
          THEN /\ Catch(ErrUnexpectedFormat)
               /\ UNCHANGED <<outputDiv, rendered>>
          ELSE IF Len(data.poems) = 0
          THEN /\ errorDiv' = <<MsgNoPoems>>
               /\ errWrites' = errWrites + 1
               /\ UNCHANGED <<outputDiv, rendered, logged>>
          ELSE /\ outputDiv' = RenderAll(data.poems)
               /\ rendered' = TRUE
               /\ UNCHANGED <<errorDiv, errWrites, logged>>
    /\ ReturnFromHandler
    /\ UNCHANGED <<authorInput, titleInput, response, parsed>>
    /\ UNCHANGED elevatorVars

Init == PoetryInit /\ ElevatorIdle

Next ==
    \/ TypeAuthor
    \/ TypeTitle
    \/ Click
    \/ FetchRejects
    \/ FetchResolves
    \/ JsonRejects
    \/ JsonResolves

Spec == Init /\ [][Next]_vars

(***************************************************************************)
(* Part I.  Claims.                                                        *)
(***************************************************************************)
\* What the claim calls allowed input, stated on the characters themselves.
OnlyLettersAndSpaces(s) == \A i \in DOMAIN s : s[i] \in Letters \cup Whitespace
OnlyLettersDigitsAndSpaces(s) ==
    \A i \in DOMAIN s : s[i] \in Letters \cup Digits \cup Whitespace
AcceptableInput(a, t) ==
    /\ a # EmptyString \/ t # EmptyString
    /\ OnlyLettersAndSpaces(a)
    /\ OnlyLettersDigitsAndSpaces(t)

\* A step of fetchPoetry's synchronous prefix: taken from idle, it leaves the
\* input fields as they are (the only other steps from idle edit a field).
ClickStep ==
    /\ pc = "idle"
    /\ authorInput' = authorInput
    /\ titleInput' = titleInput

\* C6: in fetchPoetry, whenever validateInput reports an error the message is
\* shown in the error area, no request is issued (the handler has returned)
\* and the output area is empty; and validateInput returns null exactly when
\* a field is non-empty and every field holds only allowed characters.
C6_ValidationGate ==
    [][ClickStep =>
          LET a == Trim(authorInput)
              t == Trim(titleInput)
          IN /\ (validateInput(a, t) = NULL) <=> AcceptableInput(a, t)
             /\ validateInput(a, t) # NULL =>
                   /\ errorDiv' = <<validateInput(a, t)>>
                   /\ outputDiv' = EmptyString
                   /\ pc' = "idle"
                   /\ response' = NoResponse
                   /\ parsed' = FALSE]_vars

\* C6 witness: a search with a title holding a forbidden character has been
\* rejected: the title message is displayed and the output area is empty.
C6_Witness ==
    /\ pc = "idle"
    /\ invalidTitlePattern(Trim(titleInput))
    /\ errorDiv = <<MsgBadTitle>>
    /\ outputDiv = EmptyString
    /\ errWrites = 1

\* C7: whenever a request is in flight, the URL given to fetch is a defined
\* string, at least one of author and title is non-empty, and the URL is
\* BASE/author,title/<a>;<t>, BASE/author/<a> or BASE/title/<t> accordingly.
C7_UrlDefined ==
    pc = "awaitFetch" =>
       /\ url # Undefined
       /\ author # EmptyString \/ title # EmptyString
       /\ url[1] = BASE_URL
       /\ (author # EmptyString /\ title # EmptyString) =>
             /\ url[2] = "/author,title/"
             /\ SubSeq(url, 3, Len(url)) = author \o <<";">> \o title
       /\ (author # EmptyString /\ title = EmptyString) =>
             /\ url[2] = "/author/"
             /\ SubSeq(url, 3, Len(url)) = author
       /\ (author = EmptyString /\ title # EmptyString) =>
             /\ url[2] = "/title/"
             /\ SubSeq(url, 3, Len(url)) = title

\* C7 witness: a request is in flight for a title-only search.
C7_Witness ==
    /\ pc = "awaitFetch"
    /\ author = EmptyString
    /\ title # EmptyString
    /\ url[2] = "/title/"

\* C8: for a response with ok = false, the invocation never calls
\* response.json(), never renders poems, logs the error once and writes
\* exactly one error message, returning through the catch block.
C8_HttpErrorAlwaysCaught ==
    (response.received /\ ~response.ok) =>
       /\ handleHttpErrors(response.status).thrown
       /\ pc = "idle"
       /\ ~parsed
       /\ ~rendered
       /\ logged = 1
       /\ errWrites = 1
       /\ errorDiv = CatchMessage(handleHttpErrors(response.status).message)
       /\ outputDiv = <<MsgFetching>>

\* C8 witness: a response with a status outside the nine listed ones has
\* been handled: the default branch threw and the server message is shown.
C8_Witness ==
    /\ response.received
    /\ ~response.ok
    /\ response.status \in UnlistedStatuses
    /\ errWrites = 1
    /\ errorDiv[1] = MsgServerOpen

(***************************************************************************)
(* Part II.  The elevator simulator (specification sections 3, 4 and 7).   *)
(***************************************************************************)
Directions == {"UP", "DOWN"}
ValidFloors == MinFloor..MaxFloor
\* Floors a caller may ask for: the valid range and one floor beyond each end.
OfferedFloors == (MinFloor - 1)..(MaxFloor + 1)
Requests == [floor : OfferedFloors, direction : Directions]

Range(q) == {q[i] : i \in DOMAIN q}
Abs(n) == IF n < 0 THEN -n ELSE n
Opposite(d) == IF d = "UP" THEN "DOWN" ELSE "UP"

RECURSIVE SortAsc(_)
SortAsc(S) ==
    IF S = {} THEN <<>>
    ELSE LET m == CHOOSE x \in S : \A y \in S : x <= y
         IN <<m>> \o SortAsc(S \ {m})

RECURSIVE SortDesc(_)
SortDesc(S) ==
    IF S = {} THEN <<>>
    ELSE LET m == CHOOSE x \in S : \A y \in S : x >= y
         IN <<m>> \o SortDesc(S \ {m})

Remove(q, f) == SelectSeq(q, LAMBDA x : x # f)

\* A builder that validates nothing.
AnyFloorIsValid(r) == TRUE

\* 4.2 failure semantics, 7: a floor outside the configured range is malformed.

ValidRequest(r) == r.floor \in ValidFloors

\* 4.1: the floors requested in direction d, as a set (deduplicated by floor).
FloorsOf(batch, d) ==
    {batch[i].floor : i \in {j \in DOMAIN batch : batch[j].direction = d}}

ElevatorInit ==
    /\ ePc = "build"
    /\ requests \in SeqsUpTo(Requests, MaxRequests)
    /\ buildError = "none"
    /\ startFloor \in ValidFloors
    /\ currentFloor = startFloor
    /\ currentDirection = "IDLE"
    /\ upQueue = <<>>
    /\ downQueue = <<>>
    /\ target = <<>>
    /\ serviced = <<>>

\* 4.1 Request Queue Builder, with the rejection of 4.2 and 7.
BuildQueues ==
    /\ ePc = "build"
    /\ IF \E i \in DOMAIN requests : ~ValidRequest(requests[i])
       THEN /\ ePc' = "rejected"
            /\ buildError' = "InvalidRequest"
            /\ UNCHANGED <<upQueue, downQueue>>
       ELSE /\ ePc' = "run"
            /\ upQueue' = SortAsc(FloorsOf(requests, "UP"))
            /\ downQueue' = SortDesc(FloorsOf(requests, "DOWN"))
            /\ UNCHANGED buildError
    /\ UNCHANGED <<requests, startFloor, currentFloor, currentDirection,
                   target, serviced>>
    /\ UNCHANGED poetryVars

QueueOf(d) == IF d = "UP" THEN upQueue ELSE downQueue

\* The scheduler decides only between targets.
Deciding == ePc = "run" /\ target = <<>>

\* The direction whose queue rule 1 looks at: the current one, and from IDLE
\* the up-queue first (the order of the example of section 8).
ScanDirection ==
    IF currentDirection # "IDLE" THEN currentDirection
    ELSE IF upQueue # <<>> THEN "UP" ELSE "DOWN"

\* Rule 1: floor f of direction d's queue is reachable without reversing.
\* An idle elevator has no direction to reverse.
ReachableWithoutReversing(f, d) ==
    \/ currentDirection = "IDLE"
    \/ d = "UP" /\ f >= currentFloor
    \/ d = "DOWN" /\ f <= currentFloor

ReachableFloors(d) ==
    {f \in Range(QueueOf(d)) : ReachableWithoutReversing(f, d)}

NearestFloors(S) ==
    {f \in S : \A g \in S : Abs(f - currentFloor) <= Abs(g - currentFloor)}

\* Rule 3 (tie-break): both queues hold the current floor.
CanTieBreak ==
    /\ Deciding
    /\ currentFloor \in Range(upQueue)
    /\ currentFloor \in Range(downQueue)

\* Rule 1: the queue matching the direction is non-empty and holds a floor
\* reachable without reversing.
CanSelect ==
    /\ Deciding
    /\ ~CanTieBreak
    /\ QueueOf(ScanDirection) # <<>>
    /\ ReachableFloors(ScanDirection) # {}

\* A reversal that does not wait for the current-direction queue.
CanReverseEager ==
    /\ Deciding
    /\ currentDirection # "IDLE"
    /\ QueueOf(Opposite(currentDirection)) # <<>>

\* Rule 2: the current-direction queue is exhausted; reverse if the opposite
\* queue is non-empty, otherwise go idle.
CanReverse ==
    /\ Deciding
    /\ currentDirection # "IDLE"
    /\ QueueOf(currentDirection) = <<>>
    /\ QueueOf(Opposite(currentDirection)) # <<>>

CanGoIdle ==
    /\ Deciding
    /\ currentDirection # "IDLE"
    /\ QueueOf(currentDirection) = <<>>
    /\ QueueOf(Opposite(currentDirection)) = <<>>

TieBreak ==
    /\ CanTieBreak
    /\ serviced' = Append(serviced, currentFloor)
    /\ upQueue' = Remove(upQueue, currentFloor)
    /\ downQueue' = Remove(downQueue, currentFloor)
    /\ UNCHANGED <<ePc, requests, buildError, startFloor, currentFloor,
                   currentDirection, target>>
    /\ UNCHANGED poetryVars

SelectTarget ==
    /\ CanSelect
    /\ \E f \in NearestFloors(ReachableFloors(ScanDirection)) : target' = <<f>>
    /\ currentDirection' = ScanDirection
    /\ UNCHANGED <<ePc, requests, buildError, startFloor, currentFloor,
                   upQueue, downQueue, serviced>>
    /\ UNCHANGED poetryVars

Reverse ==
    /\ CanReverse
    /\ currentDirection' = Opposite(currentDirection)
    /\ UNCHANGED <<ePc, requests, buildError, startFloor, currentFloor,
                   upQueue, downQueue, target, serviced>>
    /\ UNCHANGED poetryVars

GoIdle ==
    /\ CanGoIdle
    /\ currentDirection' = "IDLE"
    /\ UNCHANGED <<ePc, requests, buildError, startFloor, currentFloor,
                   upQueue, downQueue, target, serviced>>
    /\ UNCHANGED poetryVars

\* 4.3 Motion/Frame Generator: one step toward the current target.
StepFrame ==
    /\ ePc = "run"
    /\ target # <<>>
    /\ currentFloor # target[1]
    /\ currentFloor' = IF target[1] > currentFloor THEN currentFloor + 1
                       ELSE currentFloor - 1
    /\ UNCHANGED <<ePc, requests, buildError, startFloor, currentDirection,
                   upQueue, downQueue, target, serviced>>
    /\ UNCHANGED poetryVars

\* Reaching the target services it: it leaves its queue and joins the
\* serviced sequence; the scheduler then picks the next target.
Arrive ==
    /\ ePc = "run"
    /\ target # <<>>
    /\ currentFloor = target[1]
    /\ serviced' = Append(serviced, currentFloor)
    /\ upQueue' = IF currentDirection = "UP" THEN Remove(upQueue, currentFloor)
                  ELSE upQueue
    /\ downQueue' = IF currentDirection = "DOWN"
                    THEN Remove(downQueue, currentFloor)
                    ELSE downQueue
    /\ target' = <<>>
    /\ UNCHANGED <<ePc, requests, buildError, startFloor, currentFloor,
                   currentDirection>>
    /\ UNCHANGED poetryVars

ElevatorNext ==
    \/ BuildQueues
    \/ TieBreak
    \/ SelectTarget
    \/ Reverse
    \/ GoIdle
    \/ StepFrame
    \/ Arrive

ElevatorStart == PoetryInit /\ ElevatorInit

ElevatorSpec == ElevatorStart /\ [][ElevatorNext]_vars

\* The run has ended: the queues are built and no rule of the scheduler and
\* no step of the frame generator applies.
Halted ==
    /\ ePc = "run"
    /\ target = <<>>
    /\ ~CanTieBreak
    /\ ~CanSelect
    /\ ~CanReverse
    /\ ~CanGoIdle

(***************************************************************************)
(* Part II.  Claims.                                                       *)
(***************************************************************************)
RequestedFloors == {requests[i].floor : i \in DOMAIN requests}
Occurrences(q, f) == Cardinality({i \in DOMAIN q : q[i] = f})

\* The terminal state of 4.2: IDLE with both queues empty.
Terminal ==
    /\ Deciding
    /\ currentDirection = "IDLE"
    /\ upQueue = <<>>
    /\ downQueue = <<>>

\* C1: when the run has ended in its terminal state, the serviced-floor
\* sequence holds each requested floor exactly once: none is missing and
\* none is serviced twice.
C1_EachFloorOnce ==
    Terminal => \A f \in RequestedFloors : Occurrences(serviced, f) = 1

\* C2: the run ends only in IDLE with both queues empty: the scheduler never
\* stops with a floor still pending.
C2_DrainsToIdle ==
    Halted =>
       /\ currentDirection = "IDLE"
       /\ upQueue = <<>>
       /\ downQueue = <<>>

\* C3: the direction flips between UP and DOWN only when the queue of the
\* direction being left holds no floor reachable without reversing.
C3_NoNeedlessReversal ==
    [][/\ (currentDirection = "UP" /\ currentDirection' = "DOWN") =>
             ~\E f \in Range(upQueue) : f >= currentFloor
       /\ (currentDirection = "DOWN" /\ currentDirection' = "UP") =>
             ~\E f \in Range(downQueue) : f <= currentFloor]_vars

\* C3 witness: the elevator has reversed from UP to DOWN: a floor requested
\* upwards only (so serviced while moving up) is in the serviced sequence, and
\* the elevator now moves down with the down-queue still pending.
C3_Witness ==
    /\ ePc = "run"
    /\ currentDirection = "DOWN"
    /\ downQueue # <<>>
    /\ \E f \in FloorsOf(requests, "UP") \ FloorsOf(requests, "DOWN") :
          f \in Range(serviced)

\* C4: when the starting floor is below every requested floor, the run ends
\* with the up-queue floors in ascending order followed by the down-queue
\* floors in descending order.
StartBelowAll == \A f \in RequestedFloors : startFloor < f

C4_UpThenDown ==
    (Halted /\ StartBelowAll) =>
       serviced = SortAsc(FloorsOf(requests, "UP"))
                     \o SortDesc(FloorsOf(requests, "DOWN"))

=============================================================================
